---- MODULE Spec2Model ----
(***************************************************************************)
(* Command layer of the telescope control system (commands.go): the        *)
(* kinematic validator, the four command variants (Point, AzimuthScan,     *)
(* Track, Path) with their Check and Start phases, the completion          *)
(* predicates, and the detached upload task of the pattern commands.       *)
(*                                                                         *)
(* Numbers.  The source works in float64 degrees, degrees/second and       *)
(* seconds.  The model uses fixed point: angles and angular speeds are     *)
(* integers in units of 1e-5 (degree, degree/second), times are integers   *)
(* in units of 1e-4 second.  All comparisons of the source are kept as     *)
(* written (<, >, ==) on these integers.  NaN and the rounding of decimal  *)
(* literals to binary floating point are outside the model.                *)
(***************************************************************************)
EXTENDS Integers, Sequences, FiniteSets, TLC

VARIABLES
    cmd,          \* the decoded Command value (moveToCmd, azScanCmd, trackCmd, pathCmd)
    ephem,        \* az/el offset produced by the external coordinate transform (ICRS)
    pc,           \* position of the issuing task (the caller of Check and Start)
    checkResult,  \* error returned by the last Check call; NoCall before any call
    startRet,     \* (IsDoneFunc, error) returned by Start
    facade,       \* operations issued to the motion facade, in order of issue, each with
                  \* the error it returned (NoCall for the upload, which returns later)
    modeSetErr,   \* result of the tel.acu.ModeSet call made by startPattern
    upload,       \* the detached upload goroutine: its position, points sent, its error
    ctxDone,      \* the context passed to Start has been cancelled
    dev,          \* the antenna control unit: mode, commanded/current position, speed, stack
    rec,          \* the telemetry snapshot last handed to the caller
    predResult,   \* (done, error) returned by the last invocation of the predicate
    log,          \* lines written with log.Print
    args,         \* arguments of a direct call of checkAzEl
    ret,          \* result of the direct call of checkAzEl
    polled        \* an earlier invocation of the predicate that the caller remembers

vars == <<cmd, ephem, pc, checkResult, startRet, facade, modeSetErr, upload,
          ctxDone, dev, rec, predResult, log, args, ret, polled>>

----------------------------------------------------------------------------
(* Program constants (commands.go:13-29), in model units.                  *)

positionTol == 10
speedTol == 10
maxFreeProgramTrackStack == 10000

azimuthMin == -18000000
azimuthMax == 36000000
azimuthSpeedMax == 300000

elevationMin == 0
elevationMax == 18000000
elevationSpeedMax == 150000

\* "The minimum time interval between two samples is 0.05 s." (literal 0.05)
minSampleInterval == 500

\* pathCmd.Check samples the first 100 points (literal 100)
checkedPoints == 100

----------------------------------------------------------------------------
(* Errors.  A Go error is a record: the message, the offending value that  *)
(* the message formats, and the index of the path point when the error is  *)
(* wrapped by pathCmd.Check ("point %d: %w"); point = -1 when not wrapped. *)

Err(m, v) == [msg |-> m, val |-> v, point |-> -1]
Nil == Err("nil", 0)
NoCall == Err("not called", 0)

Abs(x) == IF x < 0 THEN -x ELSE x

----------------------------------------------------------------------------
(* Kinematic validator, commands.go:36-58.                                 *)

\* checkAzEl with the upper azimuth bound and the speed bounds exclusive
checkAzElStrict(az, el, vaz, vel) ==
    IF az < azimuthMin \/ az >= azimuthMax
    THEN Err("commanded azimuth out of range", az)
    ELSE IF el < elevationMin \/ el > elevationMax
    THEN Err("commanded elevation out of range", el)
    ELSE IF Abs(vaz) >= azimuthSpeedMax
    THEN Err("commanded azimuth vel out of range", vaz)
    ELSE IF Abs(vel) >= elevationSpeedMax
    THEN Err("commanded elevation vel out of range", vel)
    ELSE Nil

checkAzEl(az, el, vaz, vel) ==
    IF az < azimuthMin \/ az > azimuthMax
    THEN Err("commanded azimuth out of range", az)
    ELSE IF el < elevationMin \/ el > elevationMax
    THEN Err("commanded elevation out of range", el)
    ELSE IF Abs(vaz) > azimuthSpeedMax
    THEN Err("commanded azimuth vel out of range", vaz)
    ELSE IF Abs(vel) > elevationSpeedMax
    THEN Err("commanded elevation vel out of range", vel)
    ELSE Nil

\* the four messages checkAzEl formats; each is also written with log.Print
AzElMessages ==
    { "commanded azimuth out of range", "commanded elevation out of range",
      "commanded azimuth vel out of range", "commanded elevation vel out of range" }

\* the lines checkAzEl has written to the log when a Check returns e
CheckLog(e) == IF e.msg \in AzElMessages THEN <<[e EXCEPT !.point = -1]>> ELSE <<>>

----------------------------------------------------------------------------
(* Point: moveToCmd, commands.go:70-91.                                    *)

moveToCmdCheck(c) == checkAzEl(c.Azimuth, c.Elevation, 0, 0)

\* the predicate with the tolerances inclusive
moveToIsDoneInclusive(r) ==
    [ done |-> /\ r.AzimuthMode = "Preset"
               /\ r.ElevationMode = "Preset"
               /\ Abs(r.AzimuthCurrentPosition - r.AzimuthCommandedPosition) <= positionTol
               /\ Abs(r.ElevationCurrentPosition - r.ElevationCommandedPosition) <= positionTol
               /\ Abs(r.AzimuthCurrentVelocity) <= speedTol
               /\ Abs(r.ElevationCurrentVelocity) <= speedTol,
      err |-> Nil ]

\* the predicate comparing the current position with the target of the command
moveToIsDoneTarget(r) ==
    [ done |-> /\ r.AzimuthMode = "Preset"
               /\ r.ElevationMode = "Preset"
               /\ Abs(r.AzimuthCurrentPosition
                      - (IF cmd.kind = "moveTo" THEN cmd.Azimuth
                         ELSE r.AzimuthCommandedPosition)) < positionTol
               /\ Abs(r.ElevationCurrentPosition
                      - (IF cmd.kind = "moveTo" THEN cmd.Elevation
                         ELSE r.ElevationCommandedPosition)) < positionTol
               /\ Abs(r.AzimuthCurrentVelocity) < speedTol
               /\ Abs(r.ElevationCurrentVelocity) < speedTol,
      err |-> Nil ]

\* the closure isDone returned by moveToCmd.Start, commands.go:81-89
moveToIsDone(r) ==
    [ done |-> /\ r.AzimuthMode = "Preset"
               /\ r.ElevationMode = "Preset"
               /\ Abs(r.AzimuthCurrentPosition - r.AzimuthCommandedPosition) < positionTol
               /\ Abs(r.ElevationCurrentPosition - r.ElevationCommandedPosition) < positionTol
               /\ Abs(r.AzimuthCurrentVelocity) < speedTol
               /\ Abs(r.ElevationCurrentVelocity) < speedTol,
      err |-> Nil ]

----------------------------------------------------------------------------
(* AzimuthScan: azScanCmd.Check, commands.go:105-108.                      *)

\* a Check holding the scan to the envelope of checkAzEl
azScanCmdCheckEnvelope(c) == checkAzEl(c.AzimuthRange[1], c.Elevation, c.Speed, 0)

\* "XXX:TBD": return nil
azScanCmdCheck(c) == Nil

----------------------------------------------------------------------------
(* The predicate of the pattern commands, commands.go:117-123.             *)

\* the predicate waiting for an empty stack instead of one remaining point
patternIsDoneEmptyStack(r) ==
    [ done |-> /\ r.QtyOfFreeProgramTrackStackPositions = maxFreeProgramTrackStack
               /\ Abs(r.AzimuthCurrentVelocity) < speedTol
               /\ Abs(r.ElevationCurrentVelocity) < speedTol,
      err |-> Nil ]

\* the predicate also requiring that the upload has finished
patternIsDoneUploadAware(r) ==
    [ done |-> /\ upload.pc = "done"
               /\ r.QtyOfFreeProgramTrackStackPositions = maxFreeProgramTrackStack - 1
               /\ Abs(r.AzimuthCurrentVelocity) < speedTol
               /\ Abs(r.ElevationCurrentVelocity) < speedTol,
      err |-> Nil ]

patternIsDone(r) ==
    [ done |-> /\ r.QtyOfFreeProgramTrackStackPositions = maxFreeProgramTrackStack - 1
               /\ Abs(r.AzimuthCurrentVelocity) < speedTol
               /\ Abs(r.ElevationCurrentVelocity) < speedTol,
      err |-> Nil ]

----------------------------------------------------------------------------
(* Track: trackCmd.Check, commands.go:140-151.                             *)

\* Check rejecting a zero-length time window
trackCmdCheckStrict(c) ==
    IF c.Coordsys \notin {"Horizon", "ICRS"}
    THEN Err("bad coordinate system", 0)
    ELSE IF c.StopTime <= c.StartTime
    THEN Err("bad times", c.StopTime - c.StartTime)
    ELSE Nil

trackCmdCheck(c) ==
    IF c.Coordsys \notin {"Horizon", "ICRS"}
    THEN Err("bad coordinate system", 0)
    ELSE IF c.StopTime < c.StartTime
    THEN Err("bad times", c.StopTime - c.StartTime)
    ELSE Nil

----------------------------------------------------------------------------
(* Scan pattern boundary: the ScanPattern interface that pathCmd.Check and *)
(* the facade's upload drive (Iterator, Done, Next).  A path pattern       *)
(* yields one point per point of the command, in order.  For "Horizon"     *)
(* the coordinates are azimuth and elevation already; for "ICRS" they go   *)
(* through the external coordinate transform, whose outcome is the         *)
(* environment's: the offset ephem.                                        *)

NewPathScanPattern(coordsys, points) ==
    [kind |-> "path", Coordsys |-> coordsys, Points |-> points]

PatternIterator(pattern) == 0

PatternDone(pattern, iter) == iter >= Len(pattern.Points)

ToAzEl(pattern, p) ==
    IF pattern.Coordsys = "Horizon"
    THEN [Time |-> p[1], AzPosition |-> p[2], ElPosition |-> p[3],
          AzVelocity |-> p[4], ElVelocity |-> p[5]]
    ELSE [Time |-> p[1], AzPosition |-> p[2] + ephem[1], ElPosition |-> p[3] + ephem[2],
          AzVelocity |-> p[4], ElVelocity |-> p[5]]

PatternNext(pattern, iter) ==
    IF iter >= Len(pattern.Points)
    THEN [err |-> Err("pattern exhausted", iter), iter |-> iter]
    ELSE [err |-> Nil, iter |-> iter + 1, pt |-> ToAzEl(pattern, pattern.Points[iter + 1])]

----------------------------------------------------------------------------
(* Path: pathCmd.Check, commands.go:166-206.                               *)

\* the loop over the times rejecting a separation of exactly 50 ms
checkTimesInclusive(points) ==
    IF \E i \in 1..(Len(points) - 1) :
          points[i + 1][1] - points[i][1] <= minSampleInterval
    THEN Err("points are separated by less than 50 ms", 0)
    ELSE Nil

\* the loop "check the times", commands.go:179-185: for i = 1 .. len-1 (0-based) it
\* compares point i with point i-1 and returns at the first pair closer than 50 ms;
\* the error does not say which pair, so the result is that of any such pair
checkTimes(points) ==
    IF \E i \in 1..(Len(points) - 1) :
          points[i + 1][1] - points[i][1] < minSampleInterval
    THEN Err("points are separated by less than 50 ms", 0)
    ELSE Nil

\* the loop guard sampling one point more than the source does
sampleMoreOff(i) == i <= checkedPoints

\* the guard of the loop "check the first 100 coordinates", commands.go:190
sampleMore(i) == i < checkedPoints

\* one pass through the body of that loop, commands.go:191-202, at iteration i:
\* whether the loop is left there (break or return), and the error then returned
sampleOne(pattern, iter, i) ==
    IF PatternDone(pattern, iter) THEN [stop |-> TRUE, err |-> Nil]
    ELSE LET r == PatternNext(pattern, iter) IN
         IF r.err # Nil THEN [stop |-> TRUE, err |-> r.err]
         ELSE LET e == checkAzEl(r.pt.AzPosition, r.pt.ElPosition,
                                 r.pt.AzVelocity, r.pt.ElVelocity) IN
              IF e # Nil THEN [stop |-> TRUE, err |-> [e EXCEPT !.point = i]]
              ELSE [stop |-> FALSE, err |-> Nil]

\* the loop "check the first 100 coordinates", commands.go:190-203.  Each pass that
\* does not leave the loop advances the iterator by one Next, so pass i runs on the
\* iterator iter + i; the loop returns at the first pass that leaves it, and nil
\* when the guard i < 100 ends it
checkCoordinates(pattern, iter) ==
    LET passes == {i \in 0..checkedPoints : sampleMore(i)}
        leaving == {i \in passes : sampleOne(pattern, iter + i, i).stop}
    IN IF leaving = {} THEN Nil
       ELSE LET first == CHOOSE i \in leaving : \A j \in leaving : i <= j
            IN sampleOne(pattern, iter + first, first).err

\* Check testing the point list before the coordinate system
pathCmdCheckPointsFirst(c) ==
    IF Len(c.Points) = 0
    THEN Err("no points in path", 0)
    ELSE IF c.Coordsys \notin {"Horizon", "ICRS"}
    THEN Err("bad coordinate system", 0)
    ELSE LET t == checkTimes(c.Points) IN
         IF t # Nil THEN t
         ELSE LET pattern == NewPathScanPattern(c.Coordsys, c.Points) IN
              checkCoordinates(pattern, PatternIterator(pattern))

\* Check sampling with an iterator that is kept from one call to the next instead of
\* a fresh one: a second call finds the pattern exhausted
pathCmdCheckKeptIterator(c) ==
    IF c.Coordsys \notin {"Horizon", "ICRS"}
    THEN Err("bad coordinate system", 0)
    ELSE IF Len(c.Points) = 0
    THEN Err("no points in path", 0)
    ELSE LET t == checkTimes(c.Points) IN
         IF t # Nil THEN t
         ELSE LET pattern == NewPathScanPattern(c.Coordsys, c.Points) IN
              checkCoordinates(pattern, IF checkResult = NoCall THEN PatternIterator(pattern)
                                        ELSE Len(c.Points))

pathCmdCheck(c) ==
    IF c.Coordsys \notin {"Horizon", "ICRS"}
    THEN Err("bad coordinate system", 0)
    ELSE IF Len(c.Points) = 0
    THEN Err("no points in path", 0)
    ELSE LET t == checkTimes(c.Points) IN
         IF t # Nil THEN t
         ELSE LET pattern == NewPathScanPattern(c.Coordsys, c.Points) IN
              checkCoordinates(pattern, PatternIterator(pattern))

\* Command.Check, dispatched on the variant (commands.go:62-65)
Check(c) ==
    CASE c.kind = "moveTo" -> moveToCmdCheck(c)
      [] c.kind = "azScan" -> azScanCmdCheck(c)
      [] c.kind = "track" -> trackCmdCheck(c)
      [] c.kind = "path" -> pathCmdCheck(c)

----------------------------------------------------------------------------
(* Inputs.                                                                 *)

\* longest trajectory uploaded in the lifecycle specification
MaxPoints == 2

\* points of a sampled path beyond the first checkedPoints
MaxExtra == 2

AzValues == {azimuthMin - 1, azimuthMin, 0, azimuthMax, azimuthMax + 1}
ElValues == {elevationMin - 1, elevationMin, 4500000, elevationMax, elevationMax + 1}
VazValues == {-azimuthSpeedMax - 1, -azimuthSpeedMax, 0, azimuthSpeedMax, azimuthSpeedMax + 1}
VelValues == {-elevationSpeedMax - 1, -elevationSpeedMax, 0, elevationSpeedMax,
              elevationSpeedMax + 1}

Coordsystems == {"Horizon", "ICRS", "Galactic"}
TimeValues == {0, minSampleInterval, 2 * minSampleInterval}
EphemOffsets == {<<0, 0>>, <<1, -1>>}

\* az, el, vaz, vel of a point inside the envelope, and of points at and beyond its edges
GoodPoint == <<0, 4500000, 0, 0>>
EdgePoint == <<azimuthMax, elevationMax, -azimuthSpeedMax, elevationSpeedMax>>
BadPoints ==
    { <<azimuthMax + 1, 4500000, 0, 0>>, <<0, elevationMin - 1, 0, 0>>,
      <<0, 4500000, azimuthSpeedMax + 1, 0>>, <<0, 4500000, 0, -elevationSpeedMax - 1>> }

\* n points minSampleInterval apart, except that point gapAt (1-based, 0 = none)
\* follows its predecessor by gap, and point oddAt (0 = none) has coordinates odd
PathPoints(n, gapAt, gap, oddAt, odd) ==
    [ i \in 1..n |->
        LET t == (i - 1) * minSampleInterval
                 + (IF gapAt # 0 /\ i >= gapAt THEN gap - minSampleInterval ELSE 0)
            c == IF i = oddAt THEN odd ELSE GoodPoint
        IN <<t, c[1], c[2], c[3], c[4]>> ]

PathCmdsOfLength(n) ==
    { [kind |-> "path", Coordsys |-> cs, Points |-> PathPoints(n, g[1], g[2], o[1], o[2])] :
        cs \in Coordsystems,
        g \in {<<0, 0>>}
              \cup ({2, n} \X {minSampleInterval - 1, 0, -minSampleInterval}),
        o \in {<<0, GoodPoint>>}
              \cup ({1, 2, checkedPoints, checkedPoints + 1, n}
                    \X (BadPoints \cup {EdgePoint})) }

PathCmds(lengths) == UNION { PathCmdsOfLength(n) : n \in lengths }

MoveToCmds(azs, els) ==
    { [kind |-> "moveTo", Azimuth |-> az, Elevation |-> el] : az \in azs, el \in els }

AzScanCmds ==
    { [kind |-> "azScan", AzimuthRange |-> r, Elevation |-> el, NumScans |-> 1,
       StartTime |-> 0, TurnaroundTime |-> 0, Speed |-> sp] :
        r \in {<<0, 1000000>>, <<1000000, 0>>},
        el \in {4500000, elevationMin - 1, elevationMax + 1},
        sp \in {100000, azimuthSpeedMax + 1} }

TrackCmds(css) ==
    { [kind |-> "track", StartTime |-> t0, StopTime |-> t1, RA |-> 0, Dec |-> 0,
       Coordsys |-> cs] :
        t0 \in TimeValues, t1 \in TimeValues, cs \in css }

\* commands whose Check is applied on its own
UnitCommands ==
    MoveToCmds(AzValues, ElValues) \cup AzScanCmds \cup TrackCmds(Coordsystems \cup {""})
    \cup PathCmds(0..2 \cup (checkedPoints - 1)..(checkedPoints + MaxExtra))

\* commands taken through the whole lifecycle
Commands ==
    MoveToCmds({azimuthMin - 1, 0, azimuthMax}, {4500000, elevationMax + 1})
    \cup AzScanCmds \cup TrackCmds({"ICRS", "Galactic"})
    \cup PathCmds(0..MaxPoints)

Modes == {"Preset", "ProgramTrack"}

\* telemetry records (datasets.StatusGeneral8100) handed to a predicate on its own
Snapshots ==
    { [AzimuthMode |-> am, ElevationMode |-> em,
       AzimuthCommandedPosition |-> 0, AzimuthCurrentPosition |-> ap,
       ElevationCommandedPosition |-> 4500000, ElevationCurrentPosition |-> 4500000 + ep,
       AzimuthCurrentVelocity |-> av, ElevationCurrentVelocity |-> ev,
       QtyOfFreeProgramTrackStackPositions |-> q] :
        am \in Modes, em \in Modes,
        ap \in {0, positionTol - 1, -positionTol}, ep \in {0, 1 - positionTol, positionTol},
        av \in {0, speedTol - 1, -speedTol}, ev \in {0, 1 - speedTol, speedTol},
        q \in {maxFreeProgramTrackStack - 2, maxFreeProgramTrackStack - 1,
               maxFreeProgramTrackStack} }

----------------------------------------------------------------------------
(* The antenna control unit behind the facade, and its telemetry.          *)

Home == <<0, 4500000>>
AtRest == <<0, 0>>
Slewing == <<azimuthSpeedMax, 0>>

InitDev == [mode |-> "Preset", cmdPos |-> Home, curPos |-> Home, vel |-> AtRest, queued |-> 0]

\* the status record the telemetry transport delivers for device state d
Snapshot(d) ==
    [AzimuthMode |-> d.mode, ElevationMode |-> d.mode,
     AzimuthCommandedPosition |-> d.cmdPos[1], AzimuthCurrentPosition |-> d.curPos[1],
     ElevationCommandedPosition |-> d.cmdPos[2], ElevationCurrentPosition |-> d.curPos[2],
     AzimuthCurrentVelocity |-> d.vel[1], ElevationCurrentVelocity |-> d.vel[2],
     QtyOfFreeProgramTrackStackPositions |-> maxFreeProgramTrackStack - d.queued]

NoStart == [pred |-> "none", err |-> NoCall]
NoUpload == [pc |-> "none", sent |-> 0, total |-> 0, err |-> NoCall]
NoResult == [done |-> FALSE, err |-> NoCall]
NoCmd == [kind |-> "none"]

\* in preset mode the mount starts to slew towards the commanded position
DevSlew ==
    /\ dev.mode = "Preset" /\ dev.curPos # dev.cmdPos /\ dev.vel = AtRest
    /\ dev' = [dev EXCEPT !.vel = Slewing]
    /\ UNCHANGED <<cmd, ephem, pc, checkResult, startRet, facade, modeSetErr, upload,
                   ctxDone, rec, predResult, log, args, ret, polled>>

\* ... and comes to rest on it
DevArrive ==
    /\ dev.mode = "Preset" /\ dev.vel # AtRest
    /\ dev' = [dev EXCEPT !.curPos = dev.cmdPos, !.vel = AtRest]
    /\ UNCHANGED <<cmd, ephem, pc, checkResult, startRet, facade, modeSetErr, upload,
                   ctxDone, rec, predResult, log, args, ret, polled>>

\* in program-track mode the mount takes the next point off the stack and moves to
\* it; the last point remains on the stack
DevTrack ==
    /\ dev.mode = "ProgramTrack" /\ dev.queued >= 2
    /\ dev' = [dev EXCEPT !.queued = dev.queued - 1, !.vel = Slewing]
    /\ UNCHANGED <<cmd, ephem, pc, checkResult, startRet, facade, modeSetErr, upload,
                   ctxDone, rec, predResult, log, args, ret, polled>>

\* ... and comes to rest when it has reached the point it was moving to
DevRest ==
    /\ dev.mode = "ProgramTrack" /\ dev.vel # AtRest
    /\ dev' = [dev EXCEPT !.vel = AtRest]
    /\ UNCHANGED <<cmd, ephem, pc, checkResult, startRet, facade, modeSetErr, upload,
                   ctxDone, rec, predResult, log, args, ret, polled>>

\* the telemetry transport delivers a snapshot of the present device state
Telemetry ==
    /\ pc = "returned" /\ startRet.pred \in {"moveTo", "pattern"}
    /\ rec' = Snapshot(dev)
    /\ UNCHANGED <<cmd, ephem, pc, checkResult, startRet, facade, modeSetErr, upload,
                   ctxDone, dev, predResult, log, args, ret, polled>>

----------------------------------------------------------------------------
(* The caller: a command is validated, then executed, then polled.         *)

\* the caller executes a command only when its Check returned no error
MayStartUnchecked == pc \in {"decoded", "checked", "rechecked"}

MayStart == pc \in {"checked", "rechecked"} /\ checkResult = Nil

CallCheck ==
    /\ pc \in {"decoded", "checked"}
    /\ checkResult' = Check(cmd)
    /\ log' = log \o CheckLog(checkResult')
    /\ pc' = IF pc = "decoded" THEN "checked" ELSE "rechecked"
    /\ UNCHANGED <<cmd, ephem, startRet, facade, modeSetErr, upload, ctxDone, dev, rec,
                   predResult, args, ret, polled>>

\* the caller cancels the context it passed to Start
Cancel ==
    /\ pc \in {"modeSet", "returned"} /\ ~ctxDone
    /\ ctxDone' = TRUE
    /\ UNCHANGED <<cmd, ephem, pc, checkResult, startRet, facade, modeSetErr, upload,
                   dev, rec, predResult, log, args, ret, polled>>

\* what has happened around the predicate when it is invoked: whether the context
\* passed to Start is cancelled and where the upload task stands
Context == [ctx |-> ctxDone, up |-> upload.pc]

\* no invocation remembered
NoPoll == [set |-> FALSE, rec |-> Snapshot(InitDev), res |-> NoResult,
           context |-> [ctx |-> FALSE, up |-> "none"], again |-> FALSE]

\* the predicate giving up once the context passed to Start is cancelled
IsDoneContextAware(pred, r) ==
    IF ctxDone THEN [done |-> TRUE, err |-> Nil]
    ELSE IF pred = "moveTo" THEN moveToIsDone(r) ELSE patternIsDone(r)

\* the IsDoneFunc that Start returned, applied to a snapshot
IsDone(pred, r) == IF pred = "moveTo" THEN moveToIsDone(r) ELSE patternIsDone(r)

\* the caller's telemetry loop feeds the snapshot it holds into the predicate
Poll ==
    /\ pc = "returned" /\ startRet.pred \in {"moveTo", "pattern"}
    /\ predResult' = IsDone(startRet.pred, rec)
    /\ polled' \in
         IF polled.set
         THEN {[polled EXCEPT !.again = @ \/ (rec = polled.rec /\ Context # polled.context)]}
         ELSE {polled, [set |-> TRUE, rec |-> rec, res |-> predResult',
                        context |-> Context, again |-> FALSE]}
    /\ UNCHANGED <<cmd, ephem, pc, checkResult, startRet, facade, modeSetErr, upload,
                   ctxDone, dev, rec, log, args, ret>>

----------------------------------------------------------------------------
(* Start.  The facade (Telescope) applies an operation to the device when  *)
(* it returns no error; whether it returns one is the environment's.       *)

FacadeErrors(m) == {Nil, Err(m, 0)}

\* moveToCmd.Start returning a nil error whatever MoveTo returned
moveToCmdStartDropsErr ==
    /\ MayStart /\ cmd.kind = "moveTo"
    /\ \E e \in FacadeErrors("move to failed") :
         /\ facade' = Append(facade, [op |-> "MoveTo", a |-> cmd.Azimuth, b |-> cmd.Elevation, res |-> e])
         /\ dev' = IF e = Nil
                   THEN [dev EXCEPT !.mode = "Preset", !.cmdPos = <<cmd.Azimuth, cmd.Elevation>>]
                   ELSE dev
         /\ startRet' = [pred |-> "moveTo", err |-> Nil]
    /\ pc' = "returned"
    /\ UNCHANGED <<cmd, ephem, checkResult, modeSetErr, upload, ctxDone, rec, predResult,
                   log, args, ret, polled>>

\* moveToCmd.Start, commands.go:79-91
moveToCmdStart ==
    /\ MayStart /\ cmd.kind = "moveTo"
    /\ \E e \in FacadeErrors("move to failed") :
         /\ facade' = Append(facade, [op |-> "MoveTo", a |-> cmd.Azimuth, b |-> cmd.Elevation, res |-> e])
         /\ dev' = IF e = Nil
                   THEN [dev EXCEPT !.mode = "Preset", !.cmdPos = <<cmd.Azimuth, cmd.Elevation>>]
                   ELSE dev
         /\ startRet' = [pred |-> "moveTo", err |-> e]
    /\ pc' = "returned"
    /\ UNCHANGED <<cmd, ephem, checkResult, modeSetErr, upload, ctxDone, rec, predResult,
                   log, args, ret, polled>>

\* startPattern, commands.go:111-116: the go statement launches the upload of a
\* pattern of n points and the issuing task goes on to the ModeSet call
startPatternGo(n) ==
    /\ upload' = [pc |-> "spawned", sent |-> 0, total |-> n, err |-> NoCall]
    /\ pc' = "modeSet"
    /\ UNCHANGED <<cmd, ephem, checkResult, startRet, facade, modeSetErr, ctxDone, dev,
                   rec, predResult, log, args, ret, polled>>

\* azScanCmd.Start, commands.go:127-130; the sweep is cut off at MaxPoints points
azScanCmdStart ==
    /\ MayStart /\ cmd.kind = "azScan"
    /\ \E n \in 1..MaxPoints : startPatternGo(n)

\* trackCmd.Start launching the upload before it looks at the generation error
trackCmdStartLaunchFirst ==
    /\ MayStart /\ cmd.kind = "track"
    /\ \/ /\ startRet' = [pred |-> "nil", err |-> Err("track pattern failed", 0)]
          /\ upload' = [pc |-> "spawned", sent |-> 0, total |-> 0, err |-> NoCall]
          /\ pc' = "returned"
          /\ UNCHANGED <<cmd, ephem, checkResult, facade, modeSetErr, ctxDone, dev,
                         rec, predResult, log, args, ret, polled>>
       \/ \E n \in 1..MaxPoints : startPatternGo(n)

\* trackCmd.Start, commands.go:153-159; NewTrackScanPattern fails or yields a pattern
trackCmdStart ==
    /\ MayStart /\ cmd.kind = "track"
    /\ \/ /\ startRet' = [pred |-> "nil", err |-> Err("track pattern failed", 0)]
          /\ pc' = "returned"
          /\ UNCHANGED <<cmd, ephem, checkResult, facade, modeSetErr, upload, ctxDone, dev,
                         rec, predResult, log, args, ret, polled>>
       \/ \E n \in 1..MaxPoints : startPatternGo(n)

\* pathCmd.Start, commands.go:208-211
pathCmdStart ==
    /\ MayStart /\ cmd.kind = "path"
    /\ startPatternGo(Len(NewPathScanPattern(cmd.Coordsys, cmd.Points).Points))

\* startPattern waiting for the upload before it calls ModeSet
startPatternModeSetAfterUpload ==
    /\ pc = "modeSet" /\ upload.pc \in {"done", "failed"}
    /\ \E e \in FacadeErrors("mode set failed") :
         /\ facade' = Append(facade, [op |-> "ModeSet", a |-> 0, b |-> 0, res |-> e])
         /\ modeSetErr' = e
         /\ dev' = IF e = Nil THEN [dev EXCEPT !.mode = "ProgramTrack"] ELSE dev
         /\ startRet' = [pred |-> "pattern", err |-> e]
    /\ pc' = "returned"
    /\ UNCHANGED <<cmd, ephem, checkResult, upload, ctxDone, rec, predResult, log, args, ret,
                   polled>>

\* startPattern cancelling the upload task when ModeSet fails
startPatternModeSetCancels ==
    /\ pc = "modeSet"
    /\ \E e \in FacadeErrors("mode set failed") :
         /\ facade' = Append(facade, [op |-> "ModeSet", a |-> 0, b |-> 0, res |-> e])
         /\ modeSetErr' = e
         /\ dev' = IF e = Nil THEN [dev EXCEPT !.mode = "ProgramTrack"] ELSE dev
         /\ startRet' = [pred |-> "pattern", err |-> e]
         /\ ctxDone' = (ctxDone \/ e # Nil)
         /\ upload' = IF e # Nil /\ upload.pc \in {"spawned", "running"}
                      THEN [upload EXCEPT !.pc = "failed", !.err = Err("context canceled", 0)]
                      ELSE upload
    /\ pc' = "returned"
    /\ UNCHANGED <<cmd, ephem, checkResult, rec, predResult, log, args, ret, polled>>

\* startPattern, commands.go:117-124: the issuing task calls ModeSet("ProgramTrack")
\* and returns the predicate with the error of that call
startPatternModeSet ==
    /\ pc = "modeSet"
    /\ \E e \in FacadeErrors("mode set failed") :
         /\ facade' = Append(facade, [op |-> "ModeSet", a |-> 0, b |-> 0, res |-> e])
         /\ modeSetErr' = e
         /\ dev' = IF e = Nil THEN [dev EXCEPT !.mode = "ProgramTrack"] ELSE dev
         /\ startRet' = [pred |-> "pattern", err |-> e]
    /\ pc' = "returned"
    /\ UNCHANGED <<cmd, ephem, checkResult, upload, ctxDone, rec, predResult, log, args, ret,
                   polled>>

----------------------------------------------------------------------------
(* The detached upload task, commands.go:111-116.                          *)

\* the upload task held back until the issuing task has called ModeSet
UploadCallAfterModeSet ==
    /\ upload.pc = "spawned" /\ pc = "returned"
    /\ upload' = [upload EXCEPT !.pc = "running"]
    /\ facade' = Append(facade, [op |-> "UploadScanPattern", a |-> upload.total, b |-> 0, res |-> NoCall])
    /\ UNCHANGED <<cmd, ephem, pc, checkResult, startRet, modeSetErr, ctxDone, dev, rec,
                   predResult, log, args, ret, polled>>

\* the goroutine calls tel.UploadScanPattern(ctx, pattern)
UploadCall ==
    /\ upload.pc = "spawned"
    /\ upload' = [upload EXCEPT !.pc = "running"]
    /\ facade' = Append(facade, [op |-> "UploadScanPattern", a |-> upload.total, b |-> 0, res |-> NoCall])
    /\ UNCHANGED <<cmd, ephem, pc, checkResult, startRet, modeSetErr, ctxDone, dev, rec,
                   predResult, log, args, ret, polled>>

\* the facade drives the pattern's iterator and puts the next point on the stack
UploadPoint ==
    /\ upload.pc = "running" /\ upload.sent < upload.total
    /\ dev.queued < maxFreeProgramTrackStack
    /\ upload' = [upload EXCEPT !.sent = upload.sent + 1]
    /\ dev' = [dev EXCEPT !.queued = dev.queued + 1]
    /\ UNCHANGED <<cmd, ephem, pc, checkResult, startRet, facade, modeSetErr, ctxDone, rec,
                   predResult, log, args, ret, polled>>

\* UploadScanPattern returns nil: err == nil, nothing is logged
UploadReturn ==
    /\ upload.pc = "running" /\ upload.sent = upload.total
    /\ upload' = [upload EXCEPT !.pc = "done", !.err = Nil]
    /\ UNCHANGED <<cmd, ephem, pc, checkResult, startRet, facade, modeSetErr, ctxDone, dev,
                   rec, predResult, log, args, ret, polled>>

\* the upload failure surfacing in the error Start returns
UploadFailSurfaced ==
    /\ upload.pc = "running"
    /\ \E e \in {Err("upload failed", 0)} \cup
                (IF ctxDone THEN {Err("context canceled", 0)} ELSE {}) :
         /\ upload' = [upload EXCEPT !.pc = "failed", !.err = e]
         /\ log' = Append(log, e)
         /\ startRet' = IF startRet.pred = "pattern" THEN [startRet EXCEPT !.err = e]
                        ELSE startRet
    /\ UNCHANGED <<cmd, ephem, pc, checkResult, facade, modeSetErr, ctxDone, dev,
                   rec, predResult, args, ret, polled>>

\* UploadScanPattern returns an error (or the cancelled context's): log.Print(err)
UploadFail ==
    /\ upload.pc = "running"
    /\ \E e \in {Err("upload failed", 0)} \cup
                (IF ctxDone THEN {Err("context canceled", 0)} ELSE {}) :
         /\ upload' = [upload EXCEPT !.pc = "failed", !.err = e]
         /\ log' = Append(log, e)
    /\ UNCHANGED <<cmd, ephem, pc, checkResult, startRet, facade, modeSetErr, ctxDone, dev,
                   rec, predResult, args, ret, polled>>

----------------------------------------------------------------------------
(* The lifecycle specification: one command from decoding to completion.   *)

Init ==
    /\ cmd \in Commands
    /\ ephem \in EphemOffsets
    /\ pc = "decoded"
    /\ checkResult = NoCall
    /\ startRet = NoStart
    /\ facade = <<>>
    /\ modeSetErr = NoCall
    /\ upload = NoUpload
    /\ ctxDone = FALSE
    /\ dev = InitDev
    /\ rec = Snapshot(InitDev)
    /\ predResult = NoResult
    /\ log = <<>>
    /\ args = <<>>
    /\ ret = NoCall
    /\ polled = NoPoll

Next ==
    \/ CallCheck
    \/ moveToCmdStart
    \/ azScanCmdStart
    \/ trackCmdStart
    \/ pathCmdStart
    \/ startPatternModeSet
    \/ UploadCall
    \/ UploadPoint
    \/ UploadReturn
    \/ UploadFail
    \/ Cancel
    \/ DevSlew
    \/ DevArrive
    \/ DevTrack
    \/ DevRest
    \/ Telemetry
    \/ Poll

Spec == Init /\ [][Next]_vars

----------------------------------------------------------------------------
(* The unit specification: checkAzEl, Check and the two predicates, each   *)
(* applied once to an input drawn from the input sets.                     *)

AzElArgs == AzValues \X ElValues \X VazValues \X VelValues

InitUnit ==
    /\ ephem \in EphemOffsets
    /\ checkResult = NoCall
    /\ startRet = NoStart
    /\ facade = <<>>
    /\ modeSetErr = NoCall
    /\ upload = NoUpload
    /\ ctxDone = FALSE
    /\ dev = InitDev
    /\ predResult = NoResult
    /\ log = <<>>
    /\ ret = NoCall
    /\ polled = NoPoll
    /\ \/ pc = "callCheckAzEl" /\ args \in AzElArgs /\ cmd = NoCmd /\ rec = Snapshot(InitDev)
       \/ pc = "callCheck" /\ args = <<>> /\ cmd \in UnitCommands /\ rec = Snapshot(InitDev)
       \/ pc = "callIsDone" /\ args = <<>> /\ cmd = NoCmd /\ rec \in Snapshots

UnitCheckAzEl ==
    /\ pc = "callCheckAzEl"
    /\ ret' = checkAzEl(args[1], args[2], args[3], args[4])
    /\ log' = log \o CheckLog(ret')
    /\ pc' = "called"
    /\ UNCHANGED <<cmd, ephem, checkResult, startRet, facade, modeSetErr, upload, ctxDone,
                   dev, rec, predResult, args, polled>>

UnitCheck ==
    /\ pc = "callCheck"
    /\ checkResult' = Check(cmd)
    /\ log' = log \o CheckLog(checkResult')
    /\ pc' = "called"
    /\ UNCHANGED <<cmd, ephem, startRet, facade, modeSetErr, upload, ctxDone, dev, rec,
                   predResult, args, ret, polled>>

UnitIsDone ==
    /\ pc = "callIsDone"
    /\ \E pred \in {"moveTo", "pattern"} :
         /\ startRet' = [pred |-> pred, err |-> Nil]
         /\ predResult' = IsDone(pred, rec)
    /\ pc' = "called"
    /\ UNCHANGED <<cmd, ephem, checkResult, facade, modeSetErr, upload, ctxDone, dev, rec,
                   log, args, ret, polled>>

\* Check called a second time on the same command
UnitCheckAgain ==
    /\ pc = "called" /\ cmd.kind # "none"
    /\ checkResult' = Check(cmd)
    /\ log' = log \o CheckLog(checkResult')
    /\ pc' = "calledAgain"
    /\ UNCHANGED <<cmd, ephem, startRet, facade, modeSetErr, upload, ctxDone, dev, rec,
                   predResult, args, ret, polled>>

NextUnit == UnitCheckAzEl \/ UnitCheck \/ UnitCheckAgain \/ UnitIsDone

SpecUnit == InitUnit /\ [][NextUnit]_vars

----------------------------------------------------------------------------
(* Properties.                                                             *)

Recognized(cs) == cs \in {"Horizon", "ICRS"}

InEnvelope(az, el, vaz, vel) ==
    /\ azimuthMin <= az /\ az <= azimuthMax
    /\ elevationMin <= el /\ el <= elevationMax
    /\ -azimuthSpeedMax <= vaz /\ vaz <= azimuthSpeedMax
    /\ -elevationSpeedMax <= vel /\ vel <= elevationSpeedMax

\* C1: a rejected command never reaches the device.  While the command's Check
\* returns an error (the call made, or any further call the caller could make), no
\* facade operation has been issued for it, no upload task has been launched, Start
\* has returned nothing and the device is as it was.
C1_RejectedNeverReachesDevice ==
    (checkResult \notin {Nil, NoCall} \/ Check(cmd) # Nil) =>
        /\ facade = <<>>
        /\ upload = NoUpload
        /\ startRet = NoStart
        /\ dev = InitDev

\* a Path command has been checked twice and rejected, with Start enabled for none
C1_Witness ==
    /\ pc = "rechecked" /\ cmd.kind = "path" /\ checkResult \notin {Nil, NoCall}
    /\ facade = <<>>

\* C2: checkAzEl(az, el, vaz, vel) returns nil exactly when az is in [-180,360], el
\* in [0,180], |vaz| <= 3 and |vel| <= 1.5, bounds included; otherwise it returns one
\* of its out-of-range errors, which it has also logged.
C2_CheckAzElEnvelope ==
    (pc = "called" /\ Len(args) = 4) =>
        /\ (ret = Nil) <=> InEnvelope(args[1], args[2], args[3], args[4])
        /\ ret # Nil => ret.msg \in AzElMessages /\ log = <<ret>>
        /\ ret = Nil => log = <<>>

\* every argument on a bound of the envelope: accepted
C2_Witness ==
    /\ pc = "called"
    /\ args = <<azimuthMax, elevationMin, -azimuthSpeedMax, elevationSpeedMax>>
    /\ ret = Nil

\* C3: the Point predicate reports done exactly when both axes are in preset mode,
\* both position errors are below 1e-4 and both velocities are below 1e-4 in
\* absolute value; its error is nil for every snapshot.
C3_PointPredicate ==
    (pc = "called" /\ startRet.pred = "moveTo") =>
        /\ predResult.err = Nil
        /\ predResult.done <=>
             /\ rec.AzimuthMode = "Preset" /\ rec.ElevationMode = "Preset"
             /\ -positionTol < rec.AzimuthCurrentPosition - rec.AzimuthCommandedPosition
             /\ rec.AzimuthCurrentPosition - rec.AzimuthCommandedPosition < positionTol
             /\ -positionTol < rec.ElevationCurrentPosition - rec.ElevationCommandedPosition
             /\ rec.ElevationCurrentPosition - rec.ElevationCommandedPosition < positionTol
             /\ -speedTol < rec.AzimuthCurrentVelocity
             /\ rec.AzimuthCurrentVelocity < speedTol
             /\ -speedTol < rec.ElevationCurrentVelocity
             /\ rec.ElevationCurrentVelocity < speedTol

\* done on a snapshot just inside every tolerance
C3_Witness ==
    /\ pc = "called" /\ startRet.pred = "moveTo" /\ predResult.done
    /\ rec.AzimuthCurrentPosition - rec.AzimuthCommandedPosition = positionTol - 1
    /\ rec.ElevationCurrentPosition - rec.ElevationCommandedPosition = 1 - positionTol
    /\ rec.AzimuthCurrentVelocity = speedTol - 1
    /\ rec.ElevationCurrentVelocity = 1 - speedTol

\* C4: the pattern predicate reports done exactly when the free stack count is
\* capacity - 1 (9999) and both velocities are below tolerance; with any other free
\* count (9998, 10000) it reports not done; its error is nil for every snapshot.
C4_PatternPredicate ==
    (pc = "called" /\ startRet.pred = "pattern") =>
        /\ predResult.err = Nil
        /\ predResult.done <=>
             /\ rec.QtyOfFreeProgramTrackStackPositions = 9999
             /\ -speedTol < rec.AzimuthCurrentVelocity
             /\ rec.AzimuthCurrentVelocity < speedTol
             /\ -speedTol < rec.ElevationCurrentVelocity
             /\ rec.ElevationCurrentVelocity < speedTol

\* done with 9999 free slots and the mount not in program-track mode
C4_Witness ==
    /\ pc = "called" /\ startRet.pred = "pattern" /\ predResult.done
    /\ rec.QtyOfFreeProgramTrackStackPositions = maxFreeProgramTrackStack - 1
    /\ rec.AzimuthMode = "Preset"

\* C5 as stated: a Path command with an empty point list fails Check with the
\* "no points" error for every coordinate system, recognized or not.
C5_EmptyPathAlwaysNoPoints ==
    (pc = "called" /\ cmd.kind = "path" /\ Len(cmd.Points) = 0) =>
        checkResult.msg = "no points in path"

\* C5 amended: a Path command with an empty point list fails Check for every
\* coordinate system: with the "no points" error when the coordinate system is
\* recognized, with the "bad coordinate system" error when it is not.
C5_EmptyPathFails ==
    (pc = "called" /\ cmd.kind = "path" /\ Len(cmd.Points) = 0) =>
        /\ checkResult # Nil
        /\ Recognized(cmd.Coordsys) => checkResult.msg = "no points in path"
        /\ ~Recognized(cmd.Coordsys) => checkResult.msg = "bad coordinate system"

\* an empty ICRS path rejected for having no points
C5_Witness ==
    /\ pc = "called" /\ cmd.kind = "path" /\ Len(cmd.Points) = 0
    /\ cmd.Coordsys = "ICRS" /\ checkResult.msg = "no points in path"

\* C6: Track.Check fails exactly when the coordinate system is neither "Horizon" nor
\* "ICRS" or the stop time is before the start time; equal times pass.
C6_TrackCheck ==
    (pc = "called" /\ cmd.kind = "track") =>
        (checkResult # Nil <=>
            (cmd.Coordsys \notin {"Horizon", "ICRS"} \/ cmd.StopTime < cmd.StartTime))

\* an ICRS track of zero duration accepted
C6_Witness ==
    /\ pc = "called" /\ cmd.kind = "track" /\ cmd.Coordsys = "ICRS"
    /\ cmd.StopTime = cmd.StartTime /\ checkResult = Nil

Gaps(points) == { points[i + 1][1] - points[i][1] : i \in 1..(Len(points) - 1) }

Violations(c) ==
    { i \in 0..(Len(c.Points) - 1) :
        LET pt == ToAzEl(NewPathScanPattern(c.Coordsys, c.Points), c.Points[i + 1])
        IN ~InEnvelope(pt.AzPosition, pt.ElPosition, pt.AzVelocity, pt.ElVelocity) }

\* C8: for a Path command with a recognized coordinate system, a non-empty point
\* list and valid spacing, Check fails exactly when one of the first 100 produced
\* points (index 0..99) is outside the envelope, and the error then names the first
\* such point; violations at index 100 or later do not make it fail, and a path
\* shorter than 100 points is validated whole.
C8_FirstHundredChecked ==
    (/\ pc = "called" /\ cmd.kind = "path" /\ Recognized(cmd.Coordsys)
     /\ Len(cmd.Points) > 0 /\ \A g \in Gaps(cmd.Points) : g >= 500) =>
        LET early == { i \in Violations(cmd) : i < 100 } IN
        /\ early = {} <=> checkResult = Nil
        /\ early # {} => /\ checkResult.msg \in AzElMessages
                         /\ checkResult.point \in early
                         /\ \A i \in early : checkResult.point <= i

\* a path whose only violation is the produced point of index 100 accepted
C8_Witness ==
    /\ pc = "called" /\ cmd.kind = "path" /\ checkResult = Nil
    /\ Violations(cmd) = {100}

\* C9: Start of a pattern command does not wait for the upload.  Once the upload
\* task is launched the issuing task's ModeSet call and return are enabled whatever
\* the upload task has done, and when Start has returned its predicate the upload
\* task has been launched and ModeSet has been called.
C9_StartDoesNotWait ==
    /\ pc = "modeSet" => upload.pc # "none" /\ ENABLED startPatternModeSet
    /\ (pc = "returned" /\ startRet.pred = "pattern") =>
          /\ upload.pc # "none"
          /\ \E i \in 1..Len(facade) : facade[i].op = "ModeSet"

\* Start has returned its predicate and the upload task has not begun
C9_Witness ==
    /\ pc = "returned" /\ startRet.pred = "pattern" /\ startRet.err = Nil
    /\ upload.pc = "spawned"
    /\ \A i \in 1..Len(facade) : facade[i].op # "UploadScanPattern"

\* C10: a failure of the upload task is only logged.  The error Start returns is
\* the result of the ModeSet call, the predicate's error is nil in every invocation,
\* the upload error is in the log, and after an upload that failed before its first
\* point no snapshot of the device satisfies the predicate.
C10_UploadFailureOnlyLogged ==
    /\ startRet.pred = "pattern" => startRet.err = modeSetErr
    /\ predResult # NoResult => predResult.err = Nil
    /\ upload.pc = "failed" =>
          /\ upload.err # Nil
          /\ \E i \in 1..Len(log) : log[i] = upload.err
    /\ (upload.pc = "failed" /\ upload.sent = 0) => ~patternIsDone(Snapshot(dev)).done

\* the upload has failed, Start returned no error, and the predicate, invoked on a
\* snapshot of the present device state, reports not done with a nil error
C10_Witness ==
    /\ upload.pc = "failed"
    /\ startRet = [pred |-> "pattern", err |-> Nil]
    /\ rec = Snapshot(dev) /\ dev.mode = "ProgramTrack"
    /\ predResult = [done |-> FALSE, err |-> Nil]

\* C11: when trajectory generation fails in Track.Start, Start returns that failure
\* and no predicate, and no motion is issued: no upload task is launched, no facade
\* operation (ModeSet included) is made and the device is as it was.
C11_TrackGenerationFailure ==
    startRet.pred = "nil" =>
        /\ cmd.kind = "track" /\ pc = "returned"
        /\ startRet.err = Err("track pattern failed", 0)
        /\ upload = NoUpload
        /\ facade = <<>>
        /\ modeSetErr = NoCall
        /\ dev = InitDev

\* Track.Start has returned the generation failure of a command that passed Check
C11_Witness ==
    /\ cmd.kind = "track" /\ checkResult = Nil /\ pc = "returned"
    /\ startRet = [pred |-> "nil", err |-> Err("track pattern failed", 0)]

FinalPointReached ==
    /\ upload.sent = upload.total /\ upload.total > 0
    /\ dev.mode = "ProgramTrack" /\ dev.queued = 1 /\ dev.vel = AtRest

\* C13: the pattern completion check is racy.  On a snapshot of the device the
\* predicate reports done exactly when one point is queued and the mount is at rest,
\* whatever the upload task has done; so a snapshot taken in the middle of the upload,
\* with one point queued and the mount at rest, makes it report done before the final
\* point is reached.
C13_PatternCheckRacy ==
    (pc = "returned" /\ startRet.pred = "pattern") =>
        /\ IsDone("pattern", Snapshot(dev)).done <=> (dev.queued = 1 /\ dev.vel = AtRest)
        /\ (rec = Snapshot(dev) /\ dev.queued = 1 /\ dev.vel = AtRest) => ENABLED Poll
        /\ FinalPointReached => IsDone("pattern", Snapshot(dev)).done

\* the predicate has reported done on a snapshot of the present device state while
\* the upload task is still running with points left to upload
C13_Witness ==
    /\ pc = "returned" /\ startRet = [pred |-> "pattern", err |-> Nil]
    /\ predResult = [done |-> TRUE, err |-> Nil]
    /\ rec = Snapshot(dev) /\ dev.mode = "ProgramTrack"
    /\ upload.pc = "running" /\ upload.sent < upload.total
    /\ ~FinalPointReached

\* C14: the issuing task and the upload task are not synchronised.  Every step of the
\* upload task is enabled whether ModeSet has been called or not, and the ModeSet call
\* is enabled whatever the upload task has done, so the two interleave freely; the
\* device can be in trajectory mode with no point uploaded.
C14_NoSynchronisation ==
    /\ upload.pc = "spawned" => ENABLED UploadCall
    /\ (upload.pc = "running" /\ upload.sent < upload.total) => ENABLED UploadPoint
    /\ (upload.pc = "running" /\ upload.sent = upload.total) => ENABLED UploadReturn
    /\ upload.pc = "running" => ENABLED UploadFail
    /\ (pc = "modeSet" /\ upload.pc \in {"spawned", "running", "done", "failed"}) =>
          ENABLED startPatternModeSet

\* ModeSet came first: the device is in trajectory mode, Start has returned, and the
\* upload task has neither called the facade nor uploaded a point
C14_Witness ==
    /\ dev.mode = "ProgramTrack" /\ dev.queued = 0
    /\ upload.pc = "spawned" /\ upload.sent = 0 /\ upload.total > 0
    /\ facade = <<[op |-> "ModeSet", a |-> 0, b |-> 0, res |-> Nil]>>

\* C15: Start of a Point command issues exactly one MoveTo with the command's azimuth
\* and elevation, synchronously: when it has returned the facade has seen that one
\* call and nothing else, no upload task exists, ModeSet has not been called, and the
\* error returned is the result of the MoveTo call; before it nothing has been issued.
C15_PointStart ==
    cmd.kind = "moveTo" =>
        /\ upload = NoUpload /\ modeSetErr = NoCall
        /\ pc # "returned" => (facade = <<>> /\ startRet = NoStart)
        /\ pc = "returned" =>
              /\ facade = <<[op |-> "MoveTo", a |-> cmd.Azimuth, b |-> cmd.Elevation,
                             res |-> startRet.err]>>
              /\ startRet.pred = "moveTo"
              /\ startRet.err \in FacadeErrors("move to failed")

\* Start of a Point command has returned the error of a failed MoveTo
C15_Witness ==
    /\ cmd.kind = "moveTo" /\ pc = "returned"
    /\ Len(facade) = 1 /\ facade[1].op = "MoveTo"
    /\ facade[1].res = Err("move to failed", 0)
    /\ startRet.err = facade[1].res

OutlandishScan ==
    /\ cmd.kind = "azScan"
    /\ \/ cmd.Elevation < elevationMin \/ cmd.Elevation > elevationMax
       \/ cmd.Speed > azimuthSpeedMax
       \/ cmd.AzimuthRange[1] > cmd.AzimuthRange[2]

\* C17: Check of an AzimuthScan always succeeds, also for a reversed range, an
\* elevation outside [0, 180] and a speed above 3 deg/s; it logs nothing, and once it
\* has been called Start is enabled and goes on to the upload and the ModeSet call.
C17_AzScanCheckAlwaysSucceeds ==
    cmd.kind = "azScan" =>
        /\ checkResult \in {NoCall, Nil}
        /\ pc \in {"checked", "rechecked"} => (checkResult = Nil /\ ENABLED azScanCmdStart)
        /\ pc \in {"decoded", "checked", "rechecked"} => log = <<>>

\* a scan with reversed range, elevation above 180 and speed above 3 deg/s has passed
\* Check, and its Start has issued both the upload and the ModeSet call
C17_Witness ==
    /\ OutlandishScan /\ checkResult = Nil
    /\ cmd.Elevation > elevationMax /\ cmd.Speed > azimuthSpeedMax
    /\ cmd.AzimuthRange[1] > cmd.AzimuthRange[2]
    /\ pc = "returned" /\ startRet.pred = "pattern"
    /\ \E i \in 1..Len(facade) : facade[i].op = "ModeSet"
    /\ \E i \in 1..Len(facade) : facade[i].op = "UploadScanPattern"

\* the snapshot the caller holds was taken before the device took up the MoveTo
StaleSnapshot ==
    <<rec.AzimuthCommandedPosition, rec.ElevationCommandedPosition>> # dev.cmdPos

\* C18: the Point predicate compares the snapshot's current position with the
\* snapshot's own commanded position, never with the command's target.  A snapshot
\* in preset mode, at rest, whose current position is its commanded position is done
\* wherever the target lies, so a stale snapshot reports done although the mount is
\* not at the target.
C18_PointPredicateUsesSnapshotCommanded ==
    (cmd.kind = "moveTo" /\ pc = "returned") =>
        /\ ( /\ rec.AzimuthMode = "Preset" /\ rec.ElevationMode = "Preset"
             /\ rec.AzimuthCurrentPosition = rec.AzimuthCommandedPosition
             /\ rec.ElevationCurrentPosition = rec.ElevationCommandedPosition
             /\ rec.AzimuthCurrentVelocity = 0 /\ rec.ElevationCurrentVelocity = 0 )
           => IsDone(startRet.pred, rec).done
        /\ IsDone(startRet.pred, rec).done =>
             /\ Abs(rec.AzimuthCurrentPosition - rec.AzimuthCommandedPosition) < positionTol
             /\ Abs(rec.ElevationCurrentPosition - rec.ElevationCommandedPosition) < positionTol

\* MoveTo succeeded, the predicate has reported done on the snapshot taken before it,
\* and the mount is further than the tolerance from the command's target
C18_Witness ==
    /\ cmd.kind = "moveTo" /\ pc = "returned" /\ startRet = [pred |-> "moveTo", err |-> Nil]
    /\ StaleSnapshot /\ predResult = [done |-> TRUE, err |-> Nil]
    /\ dev.cmdPos = <<cmd.Azimuth, cmd.Elevation>>
    /\ \/ Abs(dev.curPos[1] - cmd.Azimuth) >= positionTol
       \/ Abs(dev.curPos[2] - cmd.Elevation) >= positionTol

\* C19: the upload task is launched before the ModeSet call and is neither cancelled nor
\* awaited when ModeSet fails.  The ModeSet step leaves the upload task and the context
\* as they are; when Start has returned a ModeSet error an upload task has been
\* launched, and whatever step it had not yet taken it can still take.
C19_UploadSurvivesModeSetFailure ==
    /\ [][ (pc = "modeSet" /\ pc' = "returned") =>
              (upload' = upload /\ ctxDone' = ctxDone /\ upload.pc # "none") ]_vars
    /\ [] ( (pc = "returned" /\ startRet.pred = "pattern" /\ startRet.err # Nil) =>
              /\ upload.pc # "none"
              /\ upload.pc = "spawned" => ENABLED UploadCall
              /\ (upload.pc = "running" /\ upload.sent < upload.total) => ENABLED UploadPoint )

\* ModeSet failed before the upload task made its call, Start has returned that error,
\* and the upload task has since put a point on the stack of a device in preset mode
C19_Witness ==
    /\ pc = "returned" /\ startRet = [pred |-> "pattern", err |-> Err("mode set failed", 0)]
    /\ Len(facade) = 2 /\ facade[1].op = "ModeSet" /\ facade[1].res = startRet.err
    /\ facade[2].op = "UploadScanPattern"
    /\ ~ctxDone /\ upload.pc = "running" /\ upload.sent >= 1
    /\ dev.mode = "Preset" /\ dev.queued >= 1

====
